---- MODULE Spec2Model ----
(***************************************************************************)
(* Model of the PDF-listing-to-source pipeline of backend/app:             *)
(* pdf_extractor.py (text reconstruction) and the /extract endpoint of     *)
(* main.py.  A Python str is a sequence of one-character strings, so the   *)
(* regular expressions and str methods of the source are modelled          *)
(* character by character.                                                 *)
(***************************************************************************)
EXTENDS Integers, Sequences, FiniteSets, TLC

\* ---------------------------------------------------------------------
\* Characters and the str methods the source uses
\* ---------------------------------------------------------------------
NL == "\n"
LowerSeq == <<"a","b","c","d","e","f","g","h","i","j","k","l","m","n","o","p","q","r","s","t","u","v","w","x","y","z">>
UpperSeq == <<"A","B","C","D","E","F","G","H","I","J","K","L","M","N","O","P","Q","R","S","T","U","V","W","X","Y","Z">>
DigitSeq == <<"0","1","2","3","4","5","6","7","8","9">>

Range(s) == {s[i] : i \in DOMAIN s}
Min(S) == CHOOSE x \in S : \A y \in S : x <= y
Max(S) == CHOOSE x \in S : \A y \in S : y <= x

\* \d, [A-Za-z0-9_] and \s of the re module (over the characters pages use)
DigitChars == Range(DigitSeq)
WordChars == Range(LowerSeq) \cup Range(UpperSeq) \cup DigitChars \cup {"_"}
SpaceChars == {" ", "\t", NL}

\* str.lower() on one character
LowerChar(c) ==
  IF c \in Range(UpperSeq)
    THEN LowerSeq[CHOOSE i \in DOMAIN UpperSeq : UpperSeq[i] = c]
    ELSE c
lower(s) == [i \in DOMAIN s |-> LowerChar(s[i])]

DigitVal(c) == (CHOOSE i \in DOMAIN DigitSeq : DigitSeq[i] = c) - 1

\* int(s) for a non-empty run of decimal digits
RECURSIVE int(_)
int(s) ==
  IF s = <<>> THEN 0
  ELSE 10 * int(SubSeq(s, 1, Len(s) - 1)) + DigitVal(s[Len(s)])

\* str(n) for n >= 0
RECURSIVE str(_)
str(n) ==
  IF n < 10 THEN <<DigitSeq[n + 1]>>
  ELSE str(n \div 10) \o <<DigitSeq[(n % 10) + 1]>>

\* str.strip(), str.rstrip(): drop whitespace at both ends / at the right end
strip(s) ==
  LET idx == {i \in DOMAIN s : s[i] \notin SpaceChars}
  IN  IF idx = {} THEN <<>> ELSE SubSeq(s, Min(idx), Max(idx))
rstrip(s) ==
  LET idx == {i \in DOMAIN s : s[i] \notin SpaceChars}
  IN  IF idx = {} THEN <<>> ELSE SubSeq(s, 1, Max(idx))

startswith(s, p) == Len(s) >= Len(p) /\ SubSeq(s, 1, Len(p)) = p
endswith(s, p) == Len(s) >= Len(p) /\ SubSeq(s, Len(s) - Len(p) + 1, Len(s)) = p

\* str.splitlines(): split at every newline; a final newline opens no line
RECURSIVE splitlines(_)
splitlines(t) ==
  IF t = <<>> THEN <<>>
  ELSE LET nls == {i \in DOMAIN t : t[i] = NL}
       IN  IF nls = {} THEN <<t>>
           ELSE <<SubSeq(t, 1, Min(nls) - 1)>>
                  \o splitlines(SubSeq(t, Min(nls) + 1, Len(t)))

\* sep.join(parts)
RECURSIVE join(_, _)
join(sep, parts) ==
  IF parts = <<>> THEN <<>>
  ELSE IF Len(parts) = 1 THEN parts[1]
  ELSE parts[1] \o sep \o join(sep, Tail(parts))

\* str.replace(old, new) for single characters
replace(s, old, new) == [i \in DOMAIN s |-> IF s[i] = old THEN new ELSE s[i]]

\* s[m-1:n] of Python: a slice clipped to the string
Slice(s, m, n) ==
  LET lo == IF m < 1 THEN 1 ELSE m
      hi == IF n > Len(s) THEN Len(s) ELSE n
  IN  IF lo > hi THEN <<>> ELSE SubSeq(s, lo, hi)

\* Last index of the maximal run of characters of class C starting at i
\* (i - 1 when s[i] is not in C): how a greedy C* consumes.
RunEnd(s, i, C) ==
  LET stops == {k \in i..Len(s) : s[k] \notin C}
  IN  IF stops = {} THEN Len(s) ELSE Min(stops) - 1

\* list.sort(key=lambda x: x[0]): stable insertion sort on the first field
RECURSIVE SortByFirst(_)
InsertByFirst(sorted, e) ==
  LET after == {i \in DOMAIN sorted : sorted[i][1] > e[1]}
  IN  IF after = {} THEN Append(sorted, e)
      ELSE SubSeq(sorted, 1, Min(after) - 1) \o <<e>>
             \o SubSeq(sorted, Min(after), Len(sorted))
SortByFirst(s) ==
  IF s = <<>> THEN <<>>
  ELSE InsertByFirst(SortByFirst(SubSeq(s, 1, Len(s) - 1)), s[Len(s)])

\* ---------------------------------------------------------------------
\* Header Parser: _extract_filename_and_page_info
\* ---------------------------------------------------------------------
JAVA_EXT == <<".","j","a","v","a">>
PHP_EXT == <<".","p","h","p">>

\* JAVA_FILENAME_PATTERN.search / PHP_FILENAME_PATTERN.search:
\* group(1) of the leftmost match of [A-Za-z0-9_]+<ext>, <<>> for no match
FilenameSearch(line, ext) ==
  LET starts == {i \in DOMAIN line :
                   /\ line[i] \in WordChars
                   /\ LET j == RunEnd(line, i, WordChars)
                      IN  Slice(line, j + 1, j + Len(ext)) = ext}
  IN  IF starts = {} THEN <<>>
      ELSE LET i == Min(starts)
           IN  SubSeq(line, i, RunEnd(line, i, WordChars) + Len(ext))

\* re.search(r"Page\s+(\d+)/(\d+)", line): <<int(m), int(n)>>, <<>> for no match
PageSearch(line) ==
  LET Match(i) ==
        LET ws == RunEnd(line, i + 4, SpaceChars)
            d1 == RunEnd(line, ws + 1, DigitChars)
            d2 == RunEnd(line, d1 + 2, DigitChars)
        IN  IF /\ Slice(line, i, i + 3) = <<"P","a","g","e">>
               /\ ws >= i + 4
               /\ d1 >= ws + 1
               /\ d1 + 1 <= Len(line)
               /\ line[d1 + 1] = "/"
               /\ d2 >= d1 + 2
            THEN <<int(SubSeq(line, ws + 1, d1)), int(SubSeq(line, d1 + 2, d2))>>
            ELSE <<>>
      starts == {i \in DOMAIN line : Match(i) # <<>>}
  IN  IF starts = {} THEN <<>> ELSE Match(Min(starts))

\* None is modelled by the empty filename with page numbers 0: the caller
\* only tests the filename for truth.
NoHeader == [filename |-> <<>>, current_page |-> 0, total_pages |-> 0]

HeaderOfLine(line) ==
  LET java_match == FilenameSearch(line, JAVA_EXT)
      php_match == FilenameSearch(line, PHP_EXT)
      filename == IF java_match # <<>> THEN java_match ELSE php_match
      page_match == PageSearch(line)
  IN  IF filename = <<>> THEN NoHeader
      ELSE IF page_match # <<>>
        THEN [filename |-> filename, current_page |-> page_match[1],
              total_pages |-> page_match[2]]
        ELSE [filename |-> filename, current_page |-> 1, total_pages |-> 1]

HEADER_SCAN_LINES == 5

_extract_filename_and_page_info(text) ==
  LET all == splitlines(text)
      lines == SubSeq(all, 1, IF Len(all) < HEADER_SCAN_LINES THEN Len(all)
                                 ELSE HEADER_SCAN_LINES)
      hits == {i \in DOMAIN lines : HeaderOfLine(lines[i]) # NoHeader}
  IN  IF hits = {} THEN NoHeader ELSE HeaderOfLine(lines[Min(hits)])

\* ---------------------------------------------------------------------
\* Line Reconstructor: _preprocess_page_text
\* ---------------------------------------------------------------------
\* re.search(r'\.(java|php)$', stripped, re.IGNORECASE)
EndsWithSourceExt(stripped) ==
  endswith(lower(stripped), JAVA_EXT) \/ endswith(lower(stripped), PHP_EXT)

\* The three tests of the header loop
IsHeaderLine(line) ==
  LET stripped == strip(line)
  IN  \/ startswith(stripped, <<"P","a","g","e"," ">>) /\ "/" \in Range(stripped)
      \/ startswith(stripped, <<"P","r","i","n","t","e","d">>)
      \/ EndsWithSourceExt(stripped)

\* header_end: the number of leading lines the loop accepts before its break
HeaderEnd(lines) ==
  LET body == {i \in DOMAIN lines : ~IsHeaderLine(lines[i])}
  IN  IF body = {} THEN Len(lines) ELSE Min(body) - 1

\* re.match(r"^\d+$", stripped)
IsLineNumber(stripped) == stripped # <<>> /\ Range(stripped) \subseteq DigitChars

\* The continuation markers the loop skips; the first is the three-character
\* mis-decoded ellipsis the source file spells out.
ELLIPSIS_MOJIBAKE == <<"a-circumflex", "euro-sign", "broken-bar">>
ELLIPSIS_DOTS == <<".",".",".">>
IsEllipsis(stripped) == stripped = ELLIPSIS_MOJIBAKE \/ stripped = ELLIPSIS_DOTS

\* re.match(r"^\s*\d+(\s+)(.*)$", line): <<spacing, remainder>>, <<>> for no match
NumberedLineMatch(line) ==
  LET lead == RunEnd(line, 1, SpaceChars)
      digs == RunEnd(line, lead + 1, DigitChars)
      ws == RunEnd(line, digs + 1, SpaceChars)
  IN  IF digs >= lead + 1 /\ ws >= digs + 1
        THEN <<Slice(line, digs + 1, ws), Slice(line, ws + 1, Len(line))>>
        ELSE <<>>

\* The fragment a non-marker line contributes
Fragment(line) ==
  LET match == NumberedLineMatch(line)
  IN  IF match # <<>>
        THEN LET spacing == match[1]
                 remainder == match[2]
                 keep_spacing == IF Len(spacing) > 1 THEN Tail(spacing) ELSE <<>>
             IN  keep_spacing \o remainder
        ELSE line

\* combined_code of a flush: parts joined by one space unless the text so
\* far is empty or already ends in a space or tab
RECURSIVE CombineParts(_, _)
CombineParts(combined_code, parts) ==
  IF parts = <<>> THEN combined_code
  ELSE LET sep == IF /\ combined_code # <<>>
                     /\ combined_code[Len(combined_code)] \notin {" ", "\t"}
                    THEN <<" ">> ELSE <<>>
       IN  CombineParts(combined_code \o sep \o parts[1], Tail(parts))

\* The content loop: <<parsed, current_code_parts>> after the lines from i on
RECURSIVE ParseContent(_, _, _, _)
ParseContent(content_lines, i, parsed, current_code_parts) ==
  IF i > Len(content_lines) THEN <<parsed, current_code_parts>>
  ELSE
    LET line == content_lines[i]
        stripped == strip(line)
    IN  IF IsLineNumber(stripped)
          THEN IF current_code_parts # <<>>
                 THEN ParseContent(content_lines, i + 1,
                        Append(parsed, <<int(stripped),
                                         CombineParts(<<>>, current_code_parts)>>),
                        <<>>)
                 ELSE ParseContent(content_lines, i + 1,
                        Append(parsed, <<int(stripped), <<>>>>), <<>>)
        ELSE IF IsEllipsis(stripped)
          THEN ParseContent(content_lines, i + 1, parsed, current_code_parts)
        ELSE ParseContent(content_lines, i + 1, parsed,
                          Append(current_code_parts, Fragment(line)))

\* Remaining fragments get the number after the last appended pair
FlushRemaining(parsed, current_code_parts) ==
  IF current_code_parts # <<>>
    THEN LET last_num == IF parsed # <<>> THEN parsed[Len(parsed)][1] ELSE 0
         IN  Append(parsed, <<last_num + 1, join(<<NL>>, current_code_parts)>>)
    ELSE parsed

Blanks(n) == [k \in 1..n |-> <<>>]

\* Mutation: the codes are listed without filling the gaps
FillGaps_NoGaps(parsed, i, cleaned, expected_line) ==
  [k \in DOMAIN parsed |-> parsed[k][2]]

\* The gap-filling loop over the sorted pairs
RECURSIVE FillGaps(_, _, _, _)
FillGaps(parsed, i, cleaned, expected_line) ==
  IF i > Len(parsed) THEN cleaned
  ELSE LET line_num == parsed[i][1]
           code == parsed[i][2]
           gap == IF expected_line < line_num THEN line_num - expected_line ELSE 0
       IN  FillGaps(parsed, i + 1, Append(cleaned \o Blanks(gap), code),
                    line_num + 1)

\* The two pop loops: drop leading and trailing entries that strip to nothing
TrimBlank(cleaned) ==
  LET keep == {i \in DOMAIN cleaned : strip(cleaned[i]) # <<>>}
  IN  IF keep = {} THEN <<>> ELSE SubSeq(cleaned, Min(keep), Max(keep))

\* The list "parsed" before it is sorted
ParsedPairs(text) ==
  LET lines == splitlines(text)
      content_lines == SubSeq(lines, HeaderEnd(lines) + 1, Len(lines))
      scan == ParseContent(content_lines, 1, <<>>, <<>>)
  IN  FlushRemaining(scan[1], scan[2])

\* The list "cleaned" before the pop loops
RebuiltLines(text) ==
  FillGaps(SortByFirst(ParsedPairs(text)), 1, <<>>, 1)

_preprocess_page_text(text) ==
  IF text = <<>> THEN <<>>
  ELSE join(<<NL>>, TrimBlank(RebuiltLines(text)))

\* ---------------------------------------------------------------------
\* Code-Start Detector: _extract_code_block
\* ---------------------------------------------------------------------
JAVA_CODE_START_HINTS ==
  {<<"p","a","c","k","a","g","e"," ">>, <<"i","m","p","o","r","t"," ">>, <<"p","u","b","l","i","c"," ">>, <<"c","l","a","s","s"," ">>, <<"i","n","t","e","r","f","a","c","e"," ">>, <<"e","n","u","m"," ">>, <<"@">>}
PHP_CODE_START_HINTS ==
  {<<"<","?","p","h","p">>, <<"<","?">>, <<"n","a","m","e","s","p","a","c","e"," ">>, <<"u","s","e"," ">>, <<"c","l","a","s","s"," ">>, <<"i","n","t","e","r","f","a","c","e"," ">>, <<"t","r","a","i","t"," ">>,
   <<"f","u","n","c","t","i","o","n"," ">>}
COMMENT_OPENERS == {<<"/","*">>, <<"/","/">>, <<"#">>, <<"/","*","*">>}

\* Mutation: no line is taken for a code start
IsCodeStart_Never(line, hints) == FALSE

IsCodeStart(line, hints) ==
  LET stripped == strip(line)
  IN  /\ stripped # <<>>
      /\ \E prefix \in hints \cup COMMENT_OPENERS : startswith(stripped, prefix)

\* None is modelled by the empty string: the caller tests "not code_block"
_extract_code_block(text, language) ==
  LET raw == splitlines(text)
      lines == [i \in DOMAIN raw |-> rstrip(raw[i])]
      hints == IF language = "java" THEN JAVA_CODE_START_HINTS
               ELSE PHP_CODE_START_HINTS
      hinted == {i \in DOMAIN lines : IsCodeStart(lines[i], hints)}
      nonblank == {i \in DOMAIN lines : strip(lines[i]) # <<>>}
  IN  IF hinted # {}
        THEN strip(join(<<NL>>, SubSeq(lines, Min(hinted), Len(lines))))
      ELSE IF nonblank # {}
        THEN strip(join(<<NL>>, SubSeq(lines, Min(nonblank), Len(lines))))
      ELSE <<>>

\* ---------------------------------------------------------------------
\* Path Resolver: _get_language, _extract_java_package,
\* _extract_php_namespace, _build_relative_path
\* ---------------------------------------------------------------------
_get_language(filename) ==
  IF endswith(lower(filename), JAVA_EXT) THEN "java"
  ELSE IF endswith(lower(filename), PHP_EXT) THEN "php"
  ELSE "unknown"

\* re.search(r"^\s*<keyword>\s+(<name class>+)\s*;", code, re.MULTILINE):
\* group(1) of the leftmost match, <<>> for no match
DeclarationSearch(code, keyword, NameChars) ==
  LET Match(i) ==
        LET lead == RunEnd(code, i, SpaceChars)
            kw == lead + Len(keyword)
            ws == RunEnd(code, kw + 1, SpaceChars)
            name == RunEnd(code, ws + 1, NameChars)
            tail == RunEnd(code, name + 1, SpaceChars)
        IN  IF /\ i = 1 \/ code[i - 1] = NL
               /\ Slice(code, lead + 1, kw) = keyword
               /\ ws >= kw + 1
               /\ name >= ws + 1
               /\ tail + 1 <= Len(code)
               /\ code[tail + 1] = ";"
            THEN SubSeq(code, ws + 1, name)
            ELSE <<>>
      starts == {i \in 1..(Len(code) + 1) : Match(i) # <<>>}
  IN  IF starts = {} THEN <<>> ELSE Match(Min(starts))

_extract_java_package(code) ==
  DeclarationSearch(code, <<"p","a","c","k","a","g","e">>, WordChars \cup {"."})

_extract_php_namespace(code) ==
  DeclarationSearch(code, <<"n","a","m","e","s","p","a","c","e">>, WordChars \cup {"\\"})

\* Mutation: the declaration is ignored
_build_relative_path_Bare(filename, code) == filename

_build_relative_path(filename, code) ==
  LET language == _get_language(filename)
      package_name == _extract_java_package(code)
      namespace == _extract_php_namespace(code)
  IN  IF language = "java" /\ package_name # <<>>
        THEN replace(package_name, ".", "/") \o <<"/">> \o filename
      ELSE IF language = "php" /\ namespace # <<>>
        THEN replace(namespace, "\\", "/") \o <<"/">> \o filename
      ELSE filename

\* ---------------------------------------------------------------------
\* Multi-Page Merger: _merge_multipage_files
\* page_data entries are <<filename, current_page, total_pages, text>>;
\* a dict is a sequence of <<key, value>> pairs in insertion order.
\* ---------------------------------------------------------------------
Keys(dict) == {dict[i][1] : i \in DOMAIN dict}

\* file_pages[filename]: the <<current_page, text>> pairs in feeding order
PagesOf(page_data, filename) ==
  LET mine == SelectSeq(page_data, LAMBDA e : e[1] = filename)
  IN  [i \in DOMAIN mine |-> <<mine[i][2], mine[i][4]>>]

\* The keys of file_pages in insertion order
RECURSIVE FirstSeen(_)
FirstSeen(page_data) ==
  IF page_data = <<>> THEN <<>>
  ELSE LET before == FirstSeen(SubSeq(page_data, 1, Len(page_data) - 1))
           filename == page_data[Len(page_data)][1]
       IN  IF \E i \in DOMAIN before : before[i] = filename THEN before
           ELSE Append(before, filename)

\* Mutation: the pages are joined in feeding order, without the sort
MergedText_Unsorted(pages) ==
  join(<<NL>>, [i \in DOMAIN pages |-> pages[i][2]])

\* pages.sort(key=lambda x: x[0]); "\n".join(text for _, text in pages)
MergedText(pages) ==
  LET sorted == SortByFirst(pages)
  IN  join(<<NL>>, [i \in DOMAIN sorted |-> sorted[i][2]])

_merge_multipage_files(page_data) ==
  LET names == FirstSeen(page_data)
  IN  [k \in DOMAIN names |->
         <<names[k], MergedText(PagesOf(page_data, names[k]))>>]

\* ---------------------------------------------------------------------
\* extract_sources_from_pages
\* ---------------------------------------------------------------------
\* One iteration of the first loop: page_data after the page "text"
FirstPassStep(page_data, text) ==
  LET header == _extract_filename_and_page_info(text)
      cleaned == _preprocess_page_text(text)
  IN  IF text = <<>> \/ header.filename = <<>> \/ cleaned = <<>>
        THEN page_data
        ELSE Append(page_data,
               <<header.filename,
                 IF header.current_page = 0 THEN 1 ELSE header.current_page,
                 IF header.total_pages = 0 THEN 1 ELSE header.total_pages,
                 cleaned>>)

\* filename.rsplit(".", 1) and f"{stem}_{dedupe_suffix}.{ext}"
SuffixFilename(filename, dedupe_suffix) ==
  LET dot == Max({i \in DOMAIN filename : filename[i] = "."})
      stem == SubSeq(filename, 1, dot - 1)
      ext == SubSeq(filename, dot + 1, Len(filename))
  IN  stem \o <<"_">> \o str(dedupe_suffix) \o <<".">> \o ext

\* The "while final_path in sources" loop
RECURSIVE DedupePath(_, _, _, _, _)
DedupePath(sources, filename, code_block, final_path, dedupe_suffix) ==
  IF final_path \notin Keys(sources) THEN final_path
  ELSE DedupePath(sources, filename, code_block,
         _build_relative_path(SuffixFilename(filename, dedupe_suffix + 1),
                              code_block),
         dedupe_suffix + 1)

\* Mutation: the code block is stored as it is
WithTrailingNewline_Never(code_block) == code_block

\* code_block if code_block.endswith("\n") else f"{code_block}\n"
WithTrailingNewline(code_block) ==
  IF endswith(code_block, <<NL>>) THEN code_block ELSE code_block \o <<NL>>

\* One iteration of the second loop: sources after one merged file
SecondPassStep(sources, filename, merged_text) ==
  LET language == _get_language(filename)
      code_block == _extract_code_block(merged_text, language)
      relative_path == _build_relative_path(filename, code_block)
      final_path == DedupePath(sources, filename, code_block, relative_path, 1)
  IN  IF language = "unknown" \/ code_block = <<>> THEN sources
      ELSE Append(sources, <<final_path, WithTrailingNewline(code_block)>>)

RECURSIVE FirstPass(_)
FirstPass(page_texts) ==
  IF page_texts = <<>> THEN <<>>
  ELSE FirstPassStep(FirstPass(SubSeq(page_texts, 1, Len(page_texts) - 1)),
                     page_texts[Len(page_texts)])

RECURSIVE SecondPass(_)
SecondPass(merged_files) ==
  IF merged_files = <<>> THEN <<>>
  ELSE LET last == merged_files[Len(merged_files)]
       IN  SecondPassStep(SecondPass(SubSeq(merged_files, 1, Len(merged_files) - 1)),
                          last[1], last[2])

extract_sources_from_pages(page_texts) ==
  SecondPass(_merge_multipage_files(FirstPass(page_texts)))

\* Mutation: every page is kept
SkipCoverPage_KeepAll(texts) == texts

\* The cover-page rule of parse_pdf_bytes
SkipCoverPage(texts) == IF Len(texts) > 1 THEN Tail(texts) ELSE <<>>

\* "not texts or not any(t.strip() for t in texts)"
NoUsableText(texts) == \A i \in DOMAIN texts : strip(texts[i]) = <<>>

\* ---------------------------------------------------------------------
\* Archive / Map Builder: generate_file_map
\* ---------------------------------------------------------------------
\* base_dir.strip().strip("/\\")
StripSlashes(s) ==
  LET t == strip(s)
      idx == {i \in DOMAIN t : t[i] \notin {"/", "\\"}}
  IN  IF idx = {} THEN <<>> ELSE SubSeq(t, Min(idx), Max(idx))

generate_file_map(sources, base_directory) ==
  LET base_dir == StripSlashes(base_directory)
  IN  [i \in DOMAIN sources |->
         <<IF base_dir # <<>> THEN base_dir \o <<"/">> \o sources[i][1]
           ELSE sources[i][1],
           sources[i][2]>>]

\* ---------------------------------------------------------------------
\* Page texts the text-extraction providers can return
\* ---------------------------------------------------------------------
\* tests/test_pdf_extractor.py: two equal pages of this text are fed
CatPage == <<"P","a","g","e"," ","h","e","a","d","e","r"," ","C","a","t",".","j","a","v","a","\n","i","m","p","o","r","t"," ","j","a","v","a",".","u","t","i","l",".","*",";","\n","c","l","a","s","s"," ","C","a","t"," ","{","}","\n">>

\* tests/test_pdf_extractor.py: header with page token, banner, numbered lines
UsePage ==
  <<"U","s","e","T","e","s","t","S","c","o","r","e","5",".","j","a","v","a"," ","P","a","g","e"," ","1","/","1","\n">>
  \o <<"P","r","i","n","t","e","d",":"," ","2","0","2","5","/","1","1","/","1","1",","," ","2",":","1","4",":","0","0"," ","P","r","i","n","t","e","d"," ","f","o","r",":"," ","S","h","i","n","z","o"," ","S","A","I","T","O","\n">>
  \o <<"1"," ","p","a","c","k","a","g","e"," ","e","x","a","m","p","l","e",";","\n","2"," ","\n","3"," ","p","u","b","l","i","c"," ","c","l","a","s","s"," ","F","o","o"," ","{","\n">>
UsePageLong ==
  UsePage
  \o <<"1","0"," "," "," "," "," ","p","u","b","l","i","c"," ","s","t","a","t","i","c"," ","v","o","i","d"," ","m","a","i","n","(","S","t","r","i","n","g","[","]"," ","a","r","g","s",")"," ","{","\n">>
  \o <<"1","1"," "," "," "," "," "," "," "," "," ","S","y","s","t","e","m",".","o","u","t",".","p","r","i","n","t","l","n","(","\"","o","k","\"",")",";","\n">>
  \o <<"1","2"," "," "," "," "," ","}","\n","1","3"," ","}","\n">>

AnimalPage == <<"A","n","i","m","a","l",".","j","a","v","a","\n","p","a","c","k","a","g","e"," ","z","o","o",";","\n","p","u","b","l","i","c"," ","c","l","a","s","s"," ","A","n","i","m","a","l"," ","{","\n","}">>

\* tests/test_pdf_extractor.py: prose before the listing
AnimalLessonPage ==
  <<"L","e","s","s","o","n"," ","0","1"," ","-"," ","A","n","i","m","a","l",".","j","a","v","a","\n","S","o","m","e"," ","o","v","e","r","v","i","e","w"," ","t","e","x","t","\n","p","a","c","k","a","g","e"," ","z","o","o",";","\n">>
  \o <<"p","u","b","l","i","c"," ","c","l","a","s","s"," ","A","n","i","m","a","l"," ","{","\n"," "," "," "," ","p","r","i","v","a","t","e"," ","f","i","n","a","l"," ","S","t","r","i","n","g"," ","n","a","m","e",";","\n","}","\n">>

\* One file printed on two pages, code line followed by its line number
BPage1 == <<"P","a","g","e"," ","1","/","2"," ","B",".","j","a","v","a","\n","c","l","a","s","s"," ","B"," ","{","\n","1","\n">>
BPage2 == <<"P","a","g","e"," ","2","/","2"," ","B",".","j","a","v","a","\n","}","\n","2","\n">>

\* Printed lines 1 and 3 with nothing at 2, in the two provider formats
GapMarkerPage == <<"G",".","j","a","v","a","\n","i","n","t"," ","a",";","\n","1","\n","i","n","t"," ","b",";","\n","3","\n">>
GapNumberedPage == <<"H",".","j","a","v","a","\n","1"," ","i","n","t"," ","a",";","\n","3"," ","i","n","t"," ","b",";","\n">>

\* A PHP page with a namespace, ending in blank lines
PhpPage == <<"T",".","p","h","p","\n","<","?","p","h","p","\n","n","a","m","e","s","p","a","c","e"," ","A","p","p","\\","M","o","d","e","l","s",";","\n","c","l","a","s","s"," ","T"," ","{","}","\n","\n"," ","\n">>

\* Pages without a filename header
ProsePage == <<"E","x","e","r","c","i","s","e","s"," ","f","o","r"," ","w","e","e","k"," ","3","\n","R","e","a","d"," ","c","h","a","p","t","e","r"," ","2","\n">>
EmptyText == <<>>

PageLib ==
  {CatPage, UsePage, UsePageLong, AnimalPage, AnimalLessonPage, BPage1, BPage2,
   GapMarkerPage, GapNumberedPage, PhpPage, ProsePage, EmptyText}
CoverLib == {EmptyText, CatPage}

\* The most pages after the first one that PyMuPDF / pypdfium2 return
MaxPages == 2
MaxFallbackPages == 1

PageSeqs(n) == UNION {[1..k -> PageLib] : k \in 0..n}
Docs(n) == {<<>>} \cup {<<c>> \o r : c \in CoverLib, r \in PageSeqs(n)}

\* The extraction functions the module defines, in the order it defines its
\* fallbacks: PyMuPDF, pypdfium2, pdfplumber
PROVIDERS == <<"pymupdf", "pdfium", "pdfplumber">>

\* What one provider call does: raise, or return the page texts
ProviderOutcomes(n) ==
  {[raises |-> TRUE, texts |-> <<>>]}
    \cup {[raises |-> FALSE, texts |-> d] : d \in Docs(n)}

BaseDirectories == {<<>>, <<"/","o","u","t","/">>}

\* ---------------------------------------------------------------------
\* State: one /extract request and the locals of the calls it makes
\* ---------------------------------------------------------------------
VARIABLES
  pc,             \* where the request is
  contents,       \* TRUE iff the uploaded bytes are non-empty
  invoked,        \* provider calls made so far, with their outcomes
  pymupdf_error,  \* parse_pdf_bytes: PyMuPDF raised
  texts,          \* parse_pdf_bytes: the provider's page texts
  page_texts,     \* extract_sources_from_pages: its argument
  page_idx,       \* pages consumed by the first loop
  text,           \* the first loop's current page
  cleaned_text,   \* the first loop's last reconstructed block
  page_data,
  merged_files,
  file_idx,       \* merged files consumed by the second loop
  sources,
  raised,         \* exception that left parse_pdf_bytes, or NoException
  response,       \* the HTTP response, or NoResponse
  unit_fn,        \* the function called on its own, "none" before the call
  unit_text,      \* its text argument
  unit_language,  \* _extract_code_block: its language argument
  unit_cleaned,   \* _preprocess_page_text: "cleaned" before the pop loops
  unit_result     \* its return value

vars == <<pc, contents, invoked, pymupdf_error, texts, page_texts, page_idx,
          text, cleaned_text, page_data, merged_files, file_idx, sources,
          raised, response, unit_fn, unit_text, unit_language, unit_cleaned,
          unit_result>>

unit_vars == <<unit_fn, unit_text, unit_language, unit_cleaned, unit_result>>

NoException == [type |-> "none", msg |-> ""]
NoResponse == [status |-> 0, detail |-> "", media_type |-> "", body |-> <<>>]

ValueErrorEmpty == [type |-> "ValueError", msg |-> "PDF file is empty"]
RuntimeErrorBoth ==
  [type |-> "RuntimeError",
   msg |-> "Failed to extract PDF text using both PyMuPDF and pypdfium2"]
\* Whatever pypdfium2 raised, re-raised unchanged
PdfiumError == [type |-> "PdfiumError", msg |-> "pypdfium2 failed"]
NothingFound ==
  [type |-> "HTTPException", msg |-> "No Java source code found in PDF"]

HTTP_OK == 200
HTTP_BAD_REQUEST == 400
HTTP_SERVER_ERROR == 500

\* No request has been received
Idle ==
  /\ pc = "idle"
  /\ contents = FALSE
  /\ invoked = <<>>
  /\ pymupdf_error = FALSE
  /\ texts = <<>>
  /\ page_texts = <<>>
  /\ page_idx = 0
  /\ text = <<>>
  /\ cleaned_text = <<>>
  /\ page_data = <<>>
  /\ merged_files = <<>>
  /\ file_idx = 0
  /\ sources = <<>>
  /\ raised = NoException
  /\ response = NoResponse

Init ==
  /\ Idle
  /\ unit_fn = "none"
  /\ unit_text = <<>>
  /\ unit_language = "java"
  /\ unit_cleaned = <<>>
  /\ unit_result = <<>>

\* extract_java_sources up to "contents = await pdf.read()"
ReceiveUpload ==
  /\ pc = "idle"
  /\ \E is_pdf \in BOOLEAN, nonempty \in BOOLEAN :
       IF ~is_pdf
         THEN /\ response' = [status |-> HTTP_BAD_REQUEST,
                              detail |-> "File must be a PDF",
                              media_type |-> "", body |-> <<>>]
              /\ pc' = "responded"
              /\ UNCHANGED contents
         ELSE /\ contents' = nonempty
              /\ pc' = "parse"
              /\ UNCHANGED response
  /\ UNCHANGED <<unit_vars, invoked, pymupdf_error, texts, page_texts, page_idx, text,
                 cleaned_text, page_data, merged_files, file_idx, sources,
                 raised>>

\* Mutation: the providers are tried whatever the input is
CheckBytes_NoCheck ==
  /\ pc = "parse"
  /\ pc' = "pymupdf"
  /\ UNCHANGED <<unit_vars, contents, invoked, pymupdf_error, texts, page_texts,
                 page_idx, text, cleaned_text, page_data, merged_files,
                 file_idx, sources, raised, response>>

\* parse_pdf_bytes: the empty-input check
CheckBytes ==
  /\ pc = "parse"
  /\ IF ~contents
       THEN raised' = ValueErrorEmpty /\ pc' = "respond"
       ELSE raised' = raised /\ pc' = "pymupdf"
  /\ UNCHANGED <<unit_vars, contents, invoked, pymupdf_error, texts, page_texts, page_idx,
                 text, cleaned_text, page_data, merged_files, file_idx,
                 sources, response>>

Outcome(name, out) ==
  [provider |-> name,
   result |-> IF out.raises THEN "raised"
              ELSE IF NoUsableText(out.texts) THEN "blank" ELSE "text"]

\* parse_pdf_bytes: the PyMuPDF attempt and the test that follows it
TryPyMuPDF ==
  /\ pc = "pymupdf"
  /\ \E out \in ProviderOutcomes(MaxPages) :
       /\ invoked' = Append(invoked, Outcome(PROVIDERS[1], out))
       /\ pymupdf_error' = out.raises
       /\ texts' = out.texts
       /\ pc' = IF NoUsableText(out.texts) THEN "pdfium" ELSE "skip_cover"
  /\ UNCHANGED <<unit_vars, contents, page_texts, page_idx, text, cleaned_text, page_data,
                 merged_files, file_idx, sources, raised, response>>

\* parse_pdf_bytes: the pypdfium2 fallback
TryPdfium ==
  /\ pc = "pdfium"
  /\ \E out \in ProviderOutcomes(MaxFallbackPages) :
       /\ invoked' = Append(invoked, Outcome(PROVIDERS[2], out))
       /\ IF out.raises
            THEN /\ raised' = IF pymupdf_error THEN RuntimeErrorBoth
                              ELSE PdfiumError
                 /\ pc' = "respond"
                 /\ UNCHANGED texts
            ELSE /\ texts' = out.texts
                 /\ pc' = "skip_cover"
                 /\ UNCHANGED raised
  /\ UNCHANGED <<unit_vars, contents, pymupdf_error, page_texts, page_idx, text,
                 cleaned_text, page_data, merged_files, file_idx, sources,
                 response>>

\* parse_pdf_bytes: drop the cover page and call extract_sources_from_pages
SkipCover ==
  /\ pc = "skip_cover"
  /\ page_texts' = SkipCoverPage(texts)
  /\ pc' = "first_pass"
  /\ UNCHANGED <<unit_vars, contents, invoked, pymupdf_error, texts, page_idx, text,
                 cleaned_text, page_data, merged_files, file_idx, sources,
                 raised, response>>

\* extract_sources_from_pages: one iteration of the first loop
FirstPassPage ==
  /\ pc = "first_pass"
  /\ page_idx < Len(page_texts)
  /\ page_idx' = page_idx + 1
  /\ text' = page_texts[page_idx + 1]
  /\ cleaned_text' =
       IF text' = <<>> \/ _extract_filename_and_page_info(text').filename = <<>>
         THEN cleaned_text
         ELSE _preprocess_page_text(text')
  /\ page_data' = FirstPassStep(page_data, text')
  /\ UNCHANGED <<unit_vars, pc, contents, invoked, pymupdf_error, texts, page_texts,
                 merged_files, file_idx, sources, raised, response>>

\* extract_sources_from_pages: the call of _merge_multipage_files
MergePages ==
  /\ pc = "first_pass"
  /\ page_idx = Len(page_texts)
  /\ merged_files' = _merge_multipage_files(page_data)
  /\ pc' = "second_pass"
  /\ UNCHANGED <<unit_vars, contents, invoked, pymupdf_error, texts, page_texts, page_idx,
                 text, cleaned_text, page_data, file_idx, sources, raised,
                 response>>

\* extract_sources_from_pages: one iteration of the second loop
SecondPassFile ==
  /\ pc = "second_pass"
  /\ file_idx < Len(merged_files)
  /\ file_idx' = file_idx + 1
  /\ sources' = SecondPassStep(sources, merged_files[file_idx + 1][1],
                               merged_files[file_idx + 1][2])
  /\ UNCHANGED <<unit_vars, pc, contents, invoked, pymupdf_error, texts, page_texts,
                 page_idx, text, cleaned_text, page_data, merged_files, raised,
                 response>>

\* extract_sources_from_pages and parse_pdf_bytes return
ReturnSources ==
  /\ pc = "second_pass"
  /\ file_idx = Len(merged_files)
  /\ pc' = "respond"
  /\ UNCHANGED <<unit_vars, contents, invoked, pymupdf_error, texts, page_texts, page_idx,
                 text, cleaned_text, page_data, merged_files, file_idx, sources,
                 raised, response>>

\* The exception that reaches "except Exception" in extract_java_sources:
\* one from parse_pdf_bytes, or the HTTPException raised for an empty map
CaughtException ==
  IF raised # NoException THEN raised
  ELSE IF sources = <<>> THEN NothingFound
  ELSE NoException

\* extract_java_sources after parse_pdf_bytes: the rest of the try block and
\* the except clause
Respond ==
  /\ pc = "respond"
  /\ \E response_format \in {"zip", "json"}, base_directory \in BaseDirectories :
       response' =
         IF CaughtException # NoException
           THEN [status |-> HTTP_SERVER_ERROR,
                 detail |-> CaughtException.msg, media_type |-> "",
                 body |-> <<>>]
           ELSE [status |-> HTTP_OK,
                 detail |-> "",
                 media_type |-> IF response_format = "json"
                                  THEN "application/json"
                                  ELSE "application/zip",
                 body |-> generate_file_map(sources, base_directory)]
  /\ pc' = "responded"
  /\ UNCHANGED <<unit_vars, contents, invoked, pymupdf_error, texts, page_texts, page_idx,
                 text, cleaned_text, page_data, merged_files, file_idx, sources,
                 raised>>

Next ==
  \/ ReceiveUpload
  \/ CheckBytes
  \/ TryPyMuPDF
  \/ TryPdfium
  \/ SkipCover
  \/ FirstPassPage
  \/ MergePages
  \/ SecondPassFile
  \/ ReturnSources
  \/ Respond

Spec == Init /\ [][Next]_vars

\* ---------------------------------------------------------------------
\* _preprocess_page_text and _extract_code_block called on their own
\* ---------------------------------------------------------------------
\* Lines of a block: blank, prose, code starts of either language, an
\* indented comment, a plain statement and line-number markers
UnitLineLib ==
  {<<" "," ">>, <<"S","o","m","e"," ","t","e","x","t">>, <<"p","a","c","k","a","g","e"," ","z","o","o",";">>, <<" "," ","/","/"," ","n","o","t","e">>, <<"<","?","p","h","p">>, <<"i","n","t"," ","x",";">>,
   <<"1">>, <<"2">>, <<"3">>}

\* The most lines a block has
MaxUnitLines == 3

UnitTexts ==
  {join(<<NL>>, ls) : ls \in UNION {[1..k -> UnitLineLib] : k \in 0..MaxUnitLines}}

pipeline_vars ==
  <<pc, contents, invoked, pymupdf_error, texts, page_texts, page_idx, text,
    cleaned_text, page_data, merged_files, file_idx, sources, raised, response>>

InitUnit ==
  /\ Idle
  /\ unit_fn = "none"
  /\ unit_text \in UnitTexts
  /\ unit_language = "java"
  /\ unit_cleaned = <<>>
  /\ unit_result = <<>>

CallPreprocessPageText ==
  /\ unit_fn = "none"
  /\ unit_fn' = "_preprocess_page_text"
  /\ unit_cleaned' = IF unit_text = <<>> THEN <<>> ELSE RebuiltLines(unit_text)
  /\ unit_result' = _preprocess_page_text(unit_text)
  /\ UNCHANGED <<unit_text, unit_language, pipeline_vars>>

CallExtractCodeBlock ==
  /\ unit_fn = "none"
  /\ \E language \in {"java", "php"} :
       /\ unit_language' = language
       /\ unit_result' = _extract_code_block(unit_text, language)
  /\ unit_fn' = "_extract_code_block"
  /\ UNCHANGED <<unit_text, unit_cleaned, pipeline_vars>>

NextUnit ==
  \/ CallPreprocessPageText
  \/ CallExtractCodeBlock

SpecUnit == InitUnit /\ [][NextUnit]_vars

\* ---------------------------------------------------------------------
\* Properties
\* ---------------------------------------------------------------------
\* parse_pdf_bytes has returned a map to extract_java_sources
Returned == pc = "respond" /\ raised = NoException

\* sub occurs in s
Contains(s, sub) ==
  \E i \in 1..(Len(s) - Len(sub) + 1) : SubSeq(s, i, i + Len(sub) - 1) = sub

\* The page has a filename header and no "Page m/n" token in its header lines
HeaderWithoutPageToken(t) ==
  /\ _extract_filename_and_page_info(t).filename # <<>>
  /\ \A line \in Range(Slice(splitlines(t), 1, HEADER_SCAN_LINES)) :
       PageSearch(line) = <<>>

\* C1: two pages that carry the same header filename F.ext and no page token
\* give a map with exactly the two keys F.ext and F_2.ext.
C1_TwoPagesTwoKeys ==
  (/\ Returned
   /\ Len(page_texts) = 2
   /\ HeaderWithoutPageToken(page_texts[1])
   /\ HeaderWithoutPageToken(page_texts[2])
   /\ _extract_filename_and_page_info(page_texts[1]).filename
        = _extract_filename_and_page_info(page_texts[2]).filename)
  => LET F == _extract_filename_and_page_info(page_texts[1]).filename
     IN  /\ Len(sources) = 2
         /\ Keys(sources) = {F, SuffixFilename(F, 2)}

\* C2: the UseTestScore5 page gives a source that starts with the package
\* line, one empty line and the class line, without header text.
C2_UseTestScoreBody ==
  (Returned /\ page_texts \in {<<UsePage>>, <<UsePageLong>>})
  => /\ Len(sources) = 1
     /\ startswith(sources[1][2], <<"p","a","c","k","a","g","e"," ","e","x","a","m","p","l","e",";","\n","\n","p","u","b","l","i","c"," ","c","l","a","s","s"," ","F","o","o"," ","{">>)
     /\ ~Contains(sources[1][2], <<"U","s","e","T","e","s","t","S","c","o","r","e","5">>)
     /\ ~Contains(sources[1][2], <<"P","r","i","n","t","e","d">>)

\* The reconstructed blocks of one file in ascending page index, found by
\* counting the smaller indices (the indices are pairwise distinct)
BlocksByPageIndex(pages) ==
  [n \in DOMAIN pages |->
     LET i == CHOOSE i \in DOMAIN pages :
                Cardinality({j \in DOMAIN pages : pages[j][1] < pages[i][1]}) = n - 1
     IN  pages[i][2]]

DistinctPageIndices(pages) ==
  \A i, j \in DOMAIN pages : i # j => pages[i][1] # pages[j][1]

\* The merged body _merge_multipage_files gives for filename
MergedBody(data, filename) ==
  LET merged == _merge_multipage_files(data)
  IN  merged[CHOOSE k \in DOMAIN merged : merged[k][1] = filename][2]

\* C3: for pages of one filename with pairwise distinct page indices the
\* merged body is the blocks joined by one newline in ascending page index,
\* whatever the order in which the pages were fed.
C3_MergeInPageOrder ==
  (pc = "second_pass" /\ file_idx = 0)
  => \A k \in DOMAIN merged_files :
       LET filename == merged_files[k][1]
           pages == PagesOf(page_data, filename)
       IN  DistinctPageIndices(pages)
           => /\ merged_files[k][2] = join(<<NL>>, BlocksByPageIndex(pages))
              /\ \A p \in Permutations(DOMAIN page_data) :
                   MergedBody([i \in DOMAIN page_data |-> page_data[p[i]]],
                              filename) = merged_files[k][2]

\* Two pages of one file were fed with the later page first and merged
C3_Witness ==
  /\ pc = "second_pass"
  /\ \E i, j \in DOMAIN page_data :
       /\ i < j
       /\ page_data[i][1] = page_data[j][1]
       /\ page_data[i][2] > page_data[j][2]

\* C4: the providers are tried in the fixed order, each one after the one
\* before it raised or returned no non-blank text, and when every provider
\* failed so the call raises instead of returning a map.
C4_ProviderChain ==
  (pc \in {"respond", "responded"} /\ contents)
  => LET failed == {i \in DOMAIN invoked : invoked[i].result # "text"}
     IN  /\ \A i \in DOMAIN invoked : invoked[i].provider = PROVIDERS[i]
         /\ \A i \in DOMAIN invoked : i < Len(invoked) => i \in failed
         /\ failed = DOMAIN invoked
              => Len(invoked) = Len(PROVIDERS) /\ raised # NoException

\* The first line of code that is a declaration "<keyword> <name>;" gives
\* the name, <<>> when no line is one
DeclaredName(code, keyword, NameChars) ==
  LET lines == splitlines(code)
      NameOn(line) ==
        LET s == strip(line)
            rest == SubSeq(s, Len(keyword) + 1, Len(s))
            name == SubSeq(strip(rest), 1, RunEnd(strip(rest), 1, NameChars))
            after == strip(SubSeq(strip(rest), Len(name) + 1, Len(strip(rest))))
        IN  IF /\ startswith(s, keyword)
               /\ rest # <<>>
               /\ rest[1] \in SpaceChars
               /\ name # <<>>
               /\ startswith(after, <<";">>)
            THEN name ELSE <<>>
      hits == {i \in DOMAIN lines : NameOn(lines[i]) # <<>>}
  IN  IF hits = {} THEN <<>> ELSE NameOn(lines[Min(hits)])

\* The components of a dotted or backslashed name
RECURSIVE Components(_, _)
Components(name, sep) ==
  LET seps == {i \in DOMAIN name : name[i] = sep}
  IN  IF seps = {} THEN <<name>>
      ELSE <<SubSeq(name, 1, Min(seps) - 1)>>
             \o Components(SubSeq(name, Min(seps) + 1, Len(name)), sep)

ExpectedKey(filename, code) ==
  LET java == endswith(filename, JAVA_EXT)
      name == IF java THEN DeclaredName(code, <<"p","a","c","k","a","g","e">>, WordChars \cup {"."})
              ELSE DeclaredName(code, <<"n","a","m","e","s","p","a","c","e">>, WordChars \cup {"\\"})
  IN  IF name = <<>> THEN filename
      ELSE join(<<"/">>, Components(name, IF java THEN "." ELSE "\\") \o <<filename>>)

C6_BareFilenameKey ==
  /\ (Returned /\ page_texts = <<AnimalLessonPage>>)
       => \E k \in DOMAIN sources :
            /\ sources[k][1] = <<"A","n","i","m","a","l",".","j","a","v","a">>
            /\ startswith(sources[k][2], <<"p","a","c","k","a","g","e"," ","z","o","o",";">>)
  /\ (Returned /\ page_texts = <<UsePageLong>>)
       => \E k \in DOMAIN sources :
            /\ sources[k][1] = <<"U","s","e","T","e","s","t","S","c","o","r","e","5",".","j","a","v","a">>
            /\ startswith(sources[k][2], <<"p","a","c","k","a","g","e"," ","e","x","a","m","p","l","e",";">>)

\* text.split("\n")
RECURSIVE SplitNewline(_)
SplitNewline(t) ==
  LET nls == {i \in DOMAIN t : t[i] = NL}
  IN  IF nls = {} THEN <<t>>
      ELSE <<SubSeq(t, 1, Min(nls) - 1)>>
             \o SplitNewline(SubSeq(t, Min(nls) + 1, Len(t)))

\* C7: a page with content for printed lines 1 and 3 and nothing for line 2,
\* in either provider format, is rebuilt as three lines with the middle empty.
C7_GapRecovered ==
  (page_idx > 0 /\ text \in {GapMarkerPage, GapNumberedPage})
  => /\ Len(SplitNewline(cleaned_text)) = 3
     /\ SplitNewline(cleaned_text)[2] = <<>>

\* C8: every value of the map ends with exactly one newline.
C8_OneTrailingNewline ==
  \A k \in DOMAIN sources :
    LET code == sources[k][2]
    IN  /\ Len(code) >= 1
        /\ code[Len(code)] = NL
        /\ Len(code) >= 2 => code[Len(code) - 1] # NL

\* A merged body that ended in blank lines was resolved
C8_Witness ==
  /\ Returned
  /\ Len(sources) = Len(merged_files)
  /\ \E k \in DOMAIN merged_files :
       LET body == merged_files[k][2]
       IN  NL \in Range(SubSeq(body, Len(rstrip(body)) + 1, Len(body)))

\* C9: the provider's first page never contributes to the result (its
\* filename header gives no key, and the result is the same whatever the
\* first page is), and a one-page document gives the empty map.
C9_CoverPageDiscarded ==
  (Returned /\ texts # <<>>)
  => /\ Len(texts) = 1 => sources = <<>>
     /\ LET F == _extract_filename_and_page_info(texts[1]).filename
        IN  (/\ F # <<>>
             /\ \A i \in 2..Len(texts) :
                  _extract_filename_and_page_info(texts[i]).filename # F)
            => \A k \in DOMAIN sources : ~endswith(sources[k][1], F)
     /\ \A c \in CoverLib \ {texts[1]} :
          extract_sources_from_pages(SkipCoverPage(<<c>> \o Tail(texts)))
            = sources

\* A first page with a filename header was followed by pages that gave sources
C9_Witness ==
  /\ Returned
  /\ Len(texts) > 1
  /\ texts[1] = CatPage
  /\ sources # <<>>

\* C10: an extraction that succeeds with an empty map is answered with
\* 400 "No Java source code found in PDF", not with 500.
C10_NothingFoundIs400 ==
  (pc = "responded" /\ invoked # <<>> /\ raised = NoException /\ sources = <<>>)
  => /\ response.status = HTTP_BAD_REQUEST
     /\ response.detail = NothingFound.msg

\* C11: parse_pdf_bytes called with empty bytes raises ValueError "PDF file
\* is empty" before any provider is invoked and leaves no partial result.
C11_EmptyBytesValueError ==
  /\ invoked # <<>> => contents
  /\ (pc \in {"respond", "responded"} /\ ~contents
        /\ response.detail # "File must be a PDF")
       => /\ raised = ValueErrorEmpty
          /\ invoked = <<>>
          /\ texts = <<>>
          /\ page_data = <<>>
          /\ sources = <<>>

\* parse_pdf_bytes was called with empty bytes and has raised
C11_Witness ==
  /\ pc = "respond"
  /\ ~contents
  /\ raised = ValueErrorEmpty

\* The trimmed line begins with a code-start hint of the language or with a
\* comment opener
BeginsCode(line, language) ==
  \E prefix \in (IF language = "java" THEN JAVA_CODE_START_HINTS
                 ELSE PHP_CODE_START_HINTS) \cup COMMENT_OPENERS :
    startswith(strip(line), prefix)

NonBlankLines(lines) == {i \in DOMAIN lines : strip(lines[i]) # <<>>}

\* The line the code block is to start at: the first that begins code, else
\* the first non-blank one, 0 when every line is blank
ExpectedStart(lines, language) ==
  LET begins == {i \in DOMAIN lines : BeginsCode(lines[i], language)}
  IN  IF begins # {} THEN Min(begins)
      ELSE IF NonBlankLines(lines) # {} THEN Min(NonBlankLines(lines))
      ELSE 0

\* C12: _extract_code_block returns the text from the first line that begins
\* with a code-start hint or a comment opener, without the lines before it;
\* from the first non-blank line when no line begins so; and nothing if and
\* only if the block is entirely blank.
C12_CodeBlockStart ==
  unit_fn = "_extract_code_block"
  => LET lines == splitlines(unit_text)
         first == ExpectedStart(lines, unit_language)
         out == SplitNewline(unit_result)
     IN  /\ unit_result = <<>> <=> strip(unit_text) = <<>>
         /\ first > 0
              => /\ Len(out) = Max(NonBlankLines(lines)) - first + 1
                 /\ out[1] = strip(lines[first])
                 /\ \A k \in 2..Len(out) : out[k] = rstrip(lines[first + k - 1])

\* A block with prose before its first code line was cut
C12_Witness ==
  /\ unit_fn = "_extract_code_block"
  /\ LET lines == splitlines(unit_text)
     IN  /\ NonBlankLines(lines) # {}
         /\ ExpectedStart(lines, unit_language) > Min(NonBlankLines(lines))

\* The header lines of a page: the first line with a filename match and the
\* "Printed ..." banner lines among the lines the Header Parser scans
HeaderRegionLines(t) ==
  LET lines == Slice(splitlines(t), 1, HEADER_SCAN_LINES)
      named == {i \in DOMAIN lines : HeaderOfLine(lines[i]) # NoHeader}
  IN  {lines[i] : i \in {j \in DOMAIN lines :
                           \/ named # {} /\ j = Min(named)
                           \/ startswith(strip(lines[j]), <<"P","r","i","n","t","e","d">>)}}

\* C13: on a page with a recognised filename header, with or without a page
\* token on the same line, the block of _preprocess_page_text holds no text
\* of the filename line, the page token or the "Printed" banner.
C13_HeaderRegionSkipped ==
  (/\ page_idx > 0
   /\ text # <<>>
   /\ _extract_filename_and_page_info(text).filename # <<>>)
  => /\ ~Contains(cleaned_text, _extract_filename_and_page_info(text).filename)
     /\ \A line \in HeaderRegionLines(text) :
          ~Contains(cleaned_text, strip(line))

\* The line numbers of the parsed pairs, the number given to trailing
\* fragments included
ObservedNumbers(parsed) == {parsed[i][1] : i \in DOMAIN parsed}

\* cleaned is the contiguous sequence 1..max of the pairs: max entries, each
\* pair's code at the position of its number, the empty string elsewhere
IsContiguousRebuild(cleaned, parsed) ==
  IF parsed = <<>> THEN cleaned = <<>>
  ELSE /\ Len(cleaned) = Max(ObservedNumbers(parsed))
       /\ \A i \in DOMAIN parsed :
            /\ parsed[i][1] \in DOMAIN cleaned
            /\ cleaned[parsed[i][1]] = parsed[i][2]
       /\ \A n \in DOMAIN cleaned :
            n \notin ObservedNumbers(parsed) => cleaned[n] = <<>>

\* C14 as stated: before trimming, the rebuilt list is the contiguous
\* sequence 1..max of the observed line numbers for any sequence of markers
\* and fragments, repeated and out-of-order numbers included.
C14_ContiguousRebuildAny ==
  unit_fn = "_preprocess_page_text"
  => IsContiguousRebuild(unit_cleaned, ParsedPairs(unit_text))

DistinctPositiveNumbers(parsed) ==
  /\ \A i \in DOMAIN parsed : parsed[i][1] >= 1
  /\ \A i, j \in DOMAIN parsed : i # j => parsed[i][1] # parsed[j][1]

\* C14 amended: the same for every sequence of markers and fragments whose
\* line numbers, the one given to trailing fragments included, are pairwise
\* distinct and at least 1, in any order.
C14_ContiguousRebuild ==
  (/\ unit_fn = "_preprocess_page_text"
   /\ DistinctPositiveNumbers(ParsedPairs(unit_text)))
  => IsContiguousRebuild(unit_cleaned, ParsedPairs(unit_text))

\* Distinct numbers were observed out of order and with a gap
C14_Witness ==
  /\ unit_fn = "_preprocess_page_text"
  /\ LET parsed == ParsedPairs(unit_text)
     IN  /\ DistinctPositiveNumbers(parsed)
         /\ \E i, j \in DOMAIN parsed : i < j /\ parsed[i][1] > parsed[j][1]
         /\ Max(ObservedNumbers(parsed)) > Len(parsed)

====
